---- MODULE Spec2Model ----
(***************************************************************************)
(* Pipeline engine of the PLC code platform: stages, generated code rows,  *)
(* the version-history ledger and the request handlers that read and write *)
(* them.  One project and its single owner are modelled.  Handlers that    *)
(* await the LLM are split at the await: other requests run in between.    *)
(* The store is the default one of app/config.py (SQLite): integer primary *)
(* keys are max(id)+1, bulk Query.delete() removes only the rows it names. *)
(***************************************************************************)
EXTENDS Integers, Sequences, FiniteSets, TLC

\* ---------------------------------------------------------------- bounds
MaxEdits == 1         \* ledger entries of edit and validate actions
MaxGenerated == 3     \* ledger entries of generate_code actions
MaxRespLen == 3       \* lines of a validator response
MaxInFlight == 1      \* requests awaiting the LLM at one time
MaxOverlap == 2       \* the same, in the runs of overlapping requests
MaxStages == 2        \* stages of the largest plan the LLM returns
MaxLabels == 2        \* labels of each list given to the merger
MaxChats == 6         \* chat requests made to the agent
MaxLines == 5         \* lines of the text given to the code parser
MaxDeps == 3          \* dependencies of a plan
MaxUploads == 2       \* safety manuals uploaded for one project

\* ------------------------------------------------------------- constants
MinWords == 50        \* PlannerOrchestrator._validate_input
HistoryWindow == 10   \* NexusAIAgent._build_messages

None == "None"        \* Python None of a nullable text column

InitialVersion == <<1, 0, 0>>      \* Stage.version_number default "1.0.0"

\* ------------------------------------------------------------ small sets
StageIds == 1..MaxStages

LogicTexts == {"L1"}               \* request.edited_logic
OriginalLogic == "L0"              \* original_logic written by the planner

Bodies == {"B3"}                   \* program_body of an update request

LabA == [name |-> "Start_Button", device |-> "X0"]
LabB == [name |-> "Sensor1", device |-> "X1"]

\* what the generator returns for one stage: the parsed labels, the number
\* of program blocks parsed and the body (the code of the first block, the
\* empty text when there is none)
GenResults ==
  { [global_labels |-> <<LabA>>, program_blocks |-> 1, program_body |-> "B1"],
    [global_labels |-> <<LabA, LabB>>, program_blocks |-> 1,
     program_body |-> "B2"] }

\* an LLM output in which no PROGRAM BLOCK is found
ZeroBlocks == [global_labels |-> <<>>, program_blocks |-> 0, program_body |-> ""]

\* the outputs of a generator that may find no program block
BlockResults ==
  { [global_labels |-> <<LabA>>, program_blocks |-> 1, program_body |-> "B1"],
    ZeroBlocks }

\* global_labels of an update request: absent (None) or a list
GlobalsRequests ==
  { [given |-> FALSE, labels |-> <<>>],
    [given |-> TRUE, labels |-> <<LabB>>] }

WordCounts == {0, 49, 50, 5001}    \* len(control_logic.split())

\* ------------------------------------------------------------- sequences
RECURSIVE SeqMax(_)
SeqMax(S) == IF S = {} THEN 0
             ELSE LET x == CHOOSE y \in S : TRUE
                      m == SeqMax(S \ {x})
                  IN IF x > m THEN x ELSE m

SeqsUpTo(S, n) == UNION { [1..k -> S] : k \in 0..n }

Last(s) == s[Len(s)]

\* the label lists given to merge_global_labels: a label may lack its name
\* or its device (label.get(..., '') reads the empty text then), and a name
\* may be the text of a device
LabelNames == {"", LabA.name, LabA.device}
LabelDevices == {"", LabA.device, LabB.device}
MergeLabels == [ name : LabelNames, device : LabelDevices ]
LabelLists == SeqsUpTo(MergeLabels, MaxLabels)

\* ------------------------------------------------------ stage validator
\* The lines a validator response is made of.  A response is a sequence of
\* lines; the empty sequence is the empty text.
StatusPass == "Status: PASS"
HdrStatus == "VALIDATION STATUS"
HdrCategorized == "CATEGORIZED ISSUES"
HdrIssues == "ISSUES"
HdrAnalysis == "ANALYSIS SUMMARY"
LineCritical == "[CRITICAL] Missing interlock"
LineModerate == "[MODERATE] Enhanced alarm"
LineOptional == "[OPTIONAL] Logging"

ValidatorLines == { StatusPass, HdrCategorized, LineCritical }

ValidatorResponses == SeqsUpTo(ValidatorLines, MaxRespLen)

\* current_section after reading a line (None: the line is no header)
SectionOf(line) ==
  IF line = HdrStatus THEN "status"
  ELSE IF line = HdrCategorized THEN "categorized"
  ELSE IF line = HdrIssues THEN "issues"
  ELSE IF line = HdrAnalysis THEN "analysis"
  ELSE None

SeverityOf(line) ==
  IF line = LineCritical THEN "critical"
  ELSE IF line = LineModerate THEN "moderate"
  ELSE IF line = LineOptional THEN "optional"
  ELSE None

\* the loop over the lines: the severities of the categorized issues, in
\* order; an issue is opened by a severity tag read in the categorized
\* section
RECURSIVE ScanIssues(_, _, _)
ScanIssues(lines, i, section) ==
  IF i > Len(lines) THEN <<>>
  ELSE IF SectionOf(lines[i]) # None
       THEN ScanIssues(lines, i + 1, SectionOf(lines[i]))
       ELSE IF section = "categorized" /\ SeverityOf(lines[i]) # None
            THEN <<SeverityOf(lines[i])>> \o ScanIssues(lines, i + 1, section)
            ELSE ScanIssues(lines, i + 1, section)

CriticalCount(issues) ==
  Cardinality({ k \in 1..Len(issues) : issues[k] = "critical" })

\* the final gate of the parser: with no critical issue valid becomes
\* true, with one it is left as the Status line set it
CriticalGate(valid, issues) ==
  IF CriticalCount(issues) = 0 THEN TRUE ELSE valid

\* StageValidator._parse_validation_result
ParseValidationResult(lines) ==
  LET hasPass == \E k \in 1..Len(lines) : lines[k] = StatusPass
      issues == ScanIssues(lines, 1, None)
      valid == CriticalGate(hasPass, issues)
  IN [ valid |-> valid,
       status |-> IF valid THEN "PASS" ELSE "FAIL",
       categorized_issues |-> issues ]

\* ------------------------------------------------------ version ledger
\* VersionHistoryService.increment_version, on the parsed (major, minor,
\* patch) of the dotted string
IncrementVersion(v, action_type) ==
  IF action_type \in {"validate", "generate_code"} THEN <<v[1], v[2] + 1, 0>>
  ELSE IF action_type \in {"edit_logic", "safety_check"}
       THEN <<v[1], v[2], v[3] + 1>>
       ELSE v

\* VersionHistoryService._generate_diff: empty for equal texts, else the
\* changed pair
GenerateDiff(old_text, new_text) ==
  IF old_text = new_text THEN <<>> ELSE <<old_text, new_text>>

\* ---------------------------------------------------------------- state
VARIABLES
  stages,     \* table stages: id -> row
  codes,      \* table generated_codes: id -> row
  history,    \* table version_history, in insertion order
  gen,        \* the generate_code request in flight
  val,        \* the validate_stage request in flight
  plan,       \* the create_plan request in flight
  last,       \* the response last sent: "ok" (200), "error" (500 or an
              \* error payload) or the precondition that failed (400)
  nexus,      \* the process-wide NexusAIAgent and its chat calls in flight
  call,       \* a function of the generator or planner called on its own:
              \* its argument and, once it has returned, its result
  safety      \* the safety-manual indices on disk and the process-wide
              \* SafetyRetrievalEngine

\* the singletons of the process, which the project routes leave alone
services == <<nexus, call, safety>>

vars == <<stages, codes, history, gen, val, plan, last, nexus, call, safety>>

\* SQLite rowid of a new row
NextId(table) == SeqMax(DOMAIN table) + 1

\* Python truthiness of a nullable text
Truthy(text) == text # None /\ text # ""

\* edited_logic or original_logic
EffectiveLogic(stage) ==
  IF Truthy(stage.edited_logic) THEN stage.edited_logic
  ELSE stage.original_logic

\* StageRepository.create, for the rows of one plan
NewStage(stage_data) ==
  [ stage_number |-> stage_data.stage_number,
    stage_type |-> stage_data.stage_type,
    original_logic |-> stage_data.original_logic,
    edited_logic |-> None,
    is_validated |-> FALSE,
    is_finalized |-> FALSE,
    version_number |-> InitialVersion,
    last_action |-> None ]

\* an update_logic that also withdraws the stage's validation
UpdateLogicInvalidating(st, stage_id, edited_logic) ==
  IF stage_id \in DOMAIN st
  THEN [st EXCEPT ![stage_id].edited_logic = edited_logic,
                  ![stage_id].is_validated = FALSE]
  ELSE st

\* StageRepository.update_logic
UpdateLogic(st, stage_id, edited_logic) ==
  IF stage_id \in DOMAIN st
  THEN [st EXCEPT ![stage_id].edited_logic = edited_logic]
  ELSE st

\* StageRepository.mark_validated
MarkValidated(st, stage_id) ==
  IF stage_id \in DOMAIN st
  THEN [st EXCEPT ![stage_id].is_validated = TRUE]
  ELSE st

\* StageRepository.mark_finalized
MarkFinalized(st, stage_id) ==
  IF stage_id \in DOMAIN st
  THEN [st EXCEPT ![stage_id].is_finalized = TRUE]
  ELSE st

\* StageRepository.get_by_project: the rows ordered by stage_number (rows
\* of equal number in id order)
RECURSIVE SortStages(_, _)
SortStages(st, ids) ==
  IF ids = {} THEN <<>>
  ELSE LET first == CHOOSE a \in ids : \A b \in ids :
                       \/ st[a].stage_number < st[b].stage_number
                       \/ /\ st[a].stage_number = st[b].stage_number
                          /\ a <= b
       IN <<first>> \o SortStages(st, ids \ {first})

GetByProject(st) == SortStages(st, DOMAIN st)

\* CodeRepository.get_by_stage: id of the newest row of the stage, NoRow
\* when the stage has none
NoRow == 0

GetByStage(cd, stage_id) ==
  LET rows == { c \in DOMAIN cd : cd[c].stage_id = stage_id }
  IN IF rows = {} THEN NoRow ELSE SeqMax(rows)

\* CodeRepository.delete_by_stage
DeleteByStage(cd, stage_id) ==
  [ c \in { d \in DOMAIN cd : cd[d].stage_id # stage_id } |-> cd[c] ]

\* CodeRepository.create
CreateCode(cd, stage_id, global_labels, program_body) ==
  [ c \in DOMAIN cd \cup {NextId(cd)} |->
      IF c \in DOMAIN cd THEN cd[c]
      ELSE [ stage_id |-> stage_id,
             global_labels |-> global_labels,
             program_body |-> program_body ] ]

\* the text create_version_entry snapshots for an action
SnapshotText(action_type, data) ==
  IF action_type \in {"edit_logic", "generate_code"} /\ data # None
  THEN data ELSE ""

\* a ledger that keeps one entry per stage and action, overwriting it
AppendEntryReplacing(hist, version_entry) ==
  LET same == { k \in 1..Len(hist) :
                  /\ hist[k].stage_id = version_entry.stage_id
                  /\ hist[k].action = version_entry.action }
  IN IF same = {} THEN Append(hist, version_entry)
     ELSE [ k \in 1..Len(hist) |->
              IF k \in same THEN version_entry ELSE hist[k] ]

\* the db.add(version_entry) and commit of create_version_entry
AppendEntry(hist, version_entry) == Append(hist, version_entry)

\* VersionHistoryService.create_version_entry: bumps the stage's version
\* and appends the entry; old_data / new_data are the text under the key
\* the action reads, or None
CreateVersionEntry(st, hist, code_id, stage_id, action_type, old_data, new_data) ==
  LET found == stage_id \in DOMAIN st
      old_version == IF found THEN st[stage_id].version_number
                     ELSE InitialVersion
      new_version == IncrementVersion(old_version, action_type)
      count == Cardinality({ k \in 1..Len(hist) : hist[k].stage_id = stage_id })
      old_text == SnapshotText(action_type, old_data)
      new_text == SnapshotText(action_type, new_data)
  IN [ stages |-> IF found
                  THEN [st EXCEPT ![stage_id].version_number = new_version,
                                  ![stage_id].last_action = action_type]
                  ELSE st,
       history |-> AppendEntry(hist,
                    [ code_id |-> code_id,
                      stage_id |-> stage_id,
                      version_number |-> new_version,
                      old_code |-> old_text,
                      new_code |-> new_text,
                      diff |-> GenerateDiff(old_text, new_text),
                      action |-> action_type,
                      previous_version |-> old_version,
                      validation_count |-> count ]) ]

\* ------------------------------------------------- global-label merger
\* the loop of GlobalLabelsService.merge_global_labels over new_labels
RECURSIVE MergeLoop(_, _, _, _, _)
MergeLoop(merged, devices, names, new_labels, k) ==
  IF k > Len(new_labels) THEN merged
  ELSE LET label == new_labels[k]
           identifier == IF label.device # "" THEN label.device ELSE label.name
       IN IF identifier # "" /\ identifier \notin devices /\ label.name \notin names
          THEN MergeLoop(Append(merged, label),
                         IF label.device # "" THEN devices \cup {label.device}
                         ELSE devices,
                         IF label.name # "" THEN names \cup {label.name}
                         ELSE names,
                         new_labels, k + 1)
          ELSE MergeLoop(merged, devices, names, new_labels, k + 1)

\* a merger that takes the device alone for the identifier of a new label
MergeDeviceOnly(existing_labels, new_labels) ==
  LET HasDevice(label) == label.device # ""
  IN MergeLoop(existing_labels,
               { existing_labels[k].device : k \in 1..Len(existing_labels) } \ {""},
               { existing_labels[k].name : k \in 1..Len(existing_labels) } \ {""},
               SelectSeq(new_labels, HasDevice), 1)

\* a merger that starts with empty sets of the devices and names seen
MergeIgnoringExisting(existing_labels, new_labels) ==
  MergeLoop(existing_labels, {}, {}, new_labels, 1)

\* GlobalLabelsService.merge_global_labels
MergeGlobalLabels(existing_labels, new_labels) ==
  MergeLoop(existing_labels,
            { existing_labels[k].device : k \in 1..Len(existing_labels) } \ {""},
            { existing_labels[k].name : k \in 1..Len(existing_labels) } \ {""},
            new_labels, 1)

\* ------------------------------------------------------------- planner
StageTypeOf(n) == IF n = 0 THEN "idle" ELSE IF n = 1 THEN "safety" ELSE "operation"

PlanOfSize(n) ==
  [ k \in 1..n |-> [ stage_number |-> k - 1,
                     stage_type |-> StageTypeOf(k - 1),
                     original_logic |-> OriginalLogic ] ]

\* the stage lists segregate() returns: the LLM's plans and the fallback
Plans == { PlanOfSize(n) : n \in 1..MaxStages }

\* the stage lists the LLM's JSON can hold, returned by segregate() as
\* parsed: any stage_number and stage_type in any order, up to MaxStages
\* stages (the fallback plan is one of them)
StageNumbers == 0..MaxStages
StageTypes == {"idle", "safety", "operation"}

LlmStages ==
  [ stage_number : StageNumbers, stage_type : StageTypes,
    original_logic : {OriginalLogic} ]

LlmPlans == SeqsUpTo(LlmStages, MaxStages) \ {<<>>}

\* PlannerOrchestrator._validate_input on a text of word_count words
ValidateInput(word_count) == word_count # 0 /\ ~(word_count < MinWords)

\* the create loop of create_plan on the emptied stages table
RECURSIVE CreateStages(_, _, _)
CreateStages(st, stage_list, k) ==
  IF k > Len(stage_list) THEN st
  ELSE LET id == NextId(st)
       IN CreateStages([ s \in DOMAIN st \cup {id} |->
                           IF s \in DOMAIN st THEN st[s]
                           ELSE NewStage(stage_list[k]) ],
                       stage_list, k + 1)

\* ------------------------------------------------------------ requests
IdleGen == [ pc |-> "idle", all_stages |-> <<>>,
             generated_results |-> <<>>, all_global_labels |-> <<>> ]
IdleVal == [ pc |-> "idle", stage_id |-> 0 ]
IdlePlan == [ pc |-> "idle" ]

\* requests suspended at their await
InFlight == (IF gen.pc = "llm" THEN 1 ELSE 0) + (IF val.pc = "llm" THEN 1 ELSE 0)
            + (IF plan.pc = "llm" THEN 1 ELSE 0)

\* ledger entries written by code generation, and by the other actions
GeneratedEntries(hist) ==
  Cardinality({ k \in 1..Len(hist) : hist[k].action = "generate_code" })
EditEntries(hist) == Len(hist) - GeneratedEntries(hist)

\* the users, the projects and who owns which
Users == {"U1", "U2"}
Projects == {"PA", "PB", "PC"}
OwnerOf(project_id) == IF project_id = "PC" THEN "U2" ELSE "U1"

\* NexusAIAgent.__init__, run once when the module is imported
IdleNexus == [ conversation_history |-> <<>>, chats |-> <<>>, asked |-> 0 ]

IdleCall == [ pc |-> "idle" ]

\* no index file written yet (0), SafetyRetrievalEngine.__init__ with its
\* empty cache (0: the project is not in the cache), nothing retrieved
IdleSafety == [ disk |-> [ p \in Projects |-> 0 ],
                cache |-> [ p \in Projects |-> 0 ],
                retrieved |-> [ p \in Projects |-> 0 ] ]

InitServices == nexus = IdleNexus /\ safety = IdleSafety

\* the state of a process that has served no request
InitIdle ==
  /\ stages = <<>>
  /\ codes = <<>>
  /\ history = <<>>
  /\ gen = IdleGen
  /\ val = IdleVal
  /\ plan = IdlePlan
  /\ last = "ok"
  /\ InitServices

Init ==
  /\ stages = <<>>
  /\ codes = <<>>
  /\ history = <<>>
  /\ gen = IdleGen
  /\ val = IdleVal
  /\ plan = IdlePlan
  /\ last = "ok"
  /\ InitServices
  /\ call = IdleCall

\* ------------------------------------------------- routes/stages.py
\* A request naming a stage that does not exist is answered 404 before
\* anything is read or written; the handlers below start after that lookup.

\* update_stage_logic
UpdateStageLogic(stage_id, edited_logic) ==
  /\ stage_id \in DOMAIN stages
  /\ LET old_logic == EffectiveLogic(stages[stage_id])
         st1 == UpdateLogic(stages, stage_id, edited_logic)
         code == GetByStage(codes, stage_id)
         ver == CreateVersionEntry(st1, history, code, stage_id,
                                   "edit_logic", old_logic, edited_logic)
     IN /\ code # NoRow => EditEntries(history) < MaxEdits
        /\ stages' = IF code # NoRow THEN ver.stages ELSE st1
        /\ history' = IF code # NoRow THEN ver.history ELSE history
  /\ last' = "ok"
  /\ UNCHANGED <<codes, gen, val, plan, services>>

\* validate_stage up to the await of the LLM call
ValidateBegin(stage_id) ==
  /\ val.pc = "idle"
  /\ stage_id \in DOMAIN stages
  /\ val' = [ pc |-> "llm", stage_id |-> stage_id ]
  /\ UNCHANGED <<stages, codes, history, gen, plan, last, services>>

\* validate_stage when the LLM call raises or returns the empty text
ValidateError ==
  /\ val.pc = "llm"
  /\ val' = IdleVal
  /\ last' = "error"
  /\ UNCHANGED <<stages, codes, history, gen, plan, services>>

\* validate_stage from the LLM's answer on
ValidateReturn(lines) ==
  /\ val.pc = "llm"
  /\ lines # <<>>
  /\ LET stage_id == val.stage_id
         result == ParseValidationResult(lines)
         st1 == MarkValidated(stages, stage_id)
         code == GetByStage(codes, stage_id)
         ver == CreateVersionEntry(st1, history, code, stage_id,
                                   "validate", None, None)
     IN IF result.valid
        THEN /\ code # NoRow => EditEntries(history) < MaxEdits
             /\ stages' = IF code # NoRow THEN ver.stages ELSE st1
             /\ history' = IF code # NoRow THEN ver.history ELSE history
             /\ last' = "ok"
        ELSE /\ last' = "ok"
             /\ UNCHANGED <<stages, history>>
  /\ val' = IdleVal
  /\ UNCHANGED <<codes, gen, plan, services>>

\* a finalize_stage without the is_validated check
FinalizeUnchecked(stage_id) ==
  /\ stage_id \in DOMAIN stages
  /\ stages' = MarkFinalized(stages, stage_id)
  /\ last' = "ok"
  /\ UNCHANGED <<codes, history, gen, val, plan, services>>

\* finalize_stage
FinalizeStage(stage_id) ==
  /\ stage_id \in DOMAIN stages
  /\ IF ~stages[stage_id].is_validated
     THEN /\ last' = "NotValidated"
          /\ UNCHANGED stages
     ELSE /\ stages' = MarkFinalized(stages, stage_id)
          /\ last' = "ok"
  /\ UNCHANGED <<codes, history, gen, val, plan, services>>

\* ------------------------------------------ routes/code_generation.py
\* StructuredTextGenerator._build_generation_request: the CONTROL LOGIC of
\* the prompt is stage.get('original_logic', ...), and stage_data always
\* has that key
GenerationRequestLogic(stage) == stage.original_logic

\* a check that looks at the first stage only
UnvalidatedFirst(st, all_stages) ==
  { k \in 1..Len(all_stages) : k = 1 /\ ~st[all_stages[k]].is_validated }

\* the stages generate_code refuses to start with
UnvalidatedStages(st, all_stages) ==
  { k \in 1..Len(all_stages) : ~st[all_stages[k]].is_validated }

\* generate_code up to the await of the first stage's LLM call
GenerateBegin(stage_id) ==
  /\ gen.pc = "idle"
  /\ stage_id \in DOMAIN stages
  /\ LET all_stages == GetByProject(stages)
     IN IF UnvalidatedStages(stages, all_stages) # {}
        THEN /\ last' = "StagesNotValidated"
             /\ UNCHANGED gen
        ELSE /\ gen' = [ pc |-> "llm",
                         all_stages |->
                           [ k \in 1..Len(all_stages) |->
                               [ id |-> all_stages[k],
                                 logic |->
                                   GenerationRequestLogic(stages[all_stages[k]]) ] ],
                         generated_results |-> <<>>,
                         all_global_labels |-> <<>> ]
             /\ UNCHANGED last
  /\ UNCHANGED <<stages, codes, history, val, plan, services>>

\* the stage the generate loop is awaiting the LLM for
CurrentStage(g) == g.all_stages[Len(g.generated_results) + 1]

\* the loop body after a successful st_generator.generate_code
Collect(g, result) ==
  [ g EXCEPT !.all_global_labels = @ \o result.global_labels,
             !.generated_results =
                Append(@, [id |-> CurrentStage(g).id, result |-> result]) ]

\* a generate loop that saves each stage's row as its code arrives
GenerateCollectSaving(result) ==
  /\ gen.pc = "llm"
  /\ Len(gen.generated_results) + 1 < Len(gen.all_stages)
  /\ gen' = Collect(gen, result)
  /\ codes' = CreateCode(DeleteByStage(codes, CurrentStage(gen).id),
                         CurrentStage(gen).id, result.global_labels,
                         result.program_body)
  /\ UNCHANGED <<stages, history, val, plan, last, services>>

\* generate_code: a stage's code arrives and the loop goes on to the next
GenerateCollect(result) ==
  /\ gen.pc = "llm"
  /\ Len(gen.generated_results) + 1 < Len(gen.all_stages)
  /\ gen' = Collect(gen, result)
  /\ UNCHANGED <<stages, codes, history, val, plan, last, services>>

\* generate_code: st_generator.generate_code raises (the LLM call fails or
\* returns the empty text)
GenerateFail ==
  /\ gen.pc = "llm"
  /\ gen' = IdleGen
  /\ last' = "GenerationFailed"
  /\ UNCHANGED <<stages, codes, history, val, plan, services>>

\* the save loop of generate_code.  The session expires its objects at
\* each commit (expire = TRUE, the sessionmaker default) or keeps them;
\* an expired stg whose row is gone raises when it is next read: for the
\* first stage after its delete_by_stage, later before it.
RECURSIVE SaveLoop(_, _, _, _, _)
SaveLoop(store, results, k, merged, expire) ==
  IF k > Len(results) THEN [store EXCEPT !.ok = TRUE]
  ELSE LET id == results[k].id
           gone == expire /\ id \notin DOMAIN store.stages
           deleted == DeleteByStage(store.codes, id)
           created == CreateCode(deleted, id, merged,
                                 results[k].result.program_body)
           ver == CreateVersionEntry(store.stages, store.history,
                                     GetByStage(created, id), id,
                                     "generate_code", None,
                                     results[k].result.program_body)
       IN IF gone /\ k > 1 THEN store
          ELSE IF gone THEN [store EXCEPT !.codes = deleted]
          ELSE SaveLoop([ stages |-> ver.stages, codes |-> created,
                          history |-> ver.history, ok |-> FALSE ],
                        results, k + 1, merged, expire)

\* generate_code: the last stage's code arrives; merge and save
GenerateFinish(result, expire) ==
  /\ gen.pc = "llm"
  /\ Len(gen.generated_results) + 1 = Len(gen.all_stages)
  /\ GeneratedEntries(history) + Len(gen.all_stages) <= MaxGenerated
  /\ LET g == Collect(gen, result)
         merged == MergeGlobalLabels(<<>>, g.all_global_labels)
         saved == SaveLoop([ stages |-> stages, codes |-> codes,
                             history |-> history, ok |-> FALSE ],
                           g.generated_results, 1, merged, expire)
     IN /\ stages' = saved.stages
        /\ codes' = saved.codes
        /\ history' = saved.history
        /\ last' = IF saved.ok THEN "ok" ELSE "error"
  /\ gen' = IdleGen
  /\ UNCHANGED <<val, plan, services>>

\* update_generated_code; a stage without a code row is answered 404
UpdateGeneratedCode(stage_id, program_body, global_labels) ==
  /\ stage_id \in DOMAIN stages
  /\ GetByStage(codes, stage_id) # NoRow
  /\ EditEntries(history) < MaxEdits
  /\ LET code == GetByStage(codes, stage_id)
         ver == CreateVersionEntry(stages, history, code, stage_id,
                                   "edit_code", None, program_body)
     IN /\ codes' = [ codes EXCEPT
                        ![code].program_body = program_body,
                        ![code].global_labels =
                           IF global_labels.given THEN global_labels.labels
                           ELSE @ ]
        /\ stages' = ver.stages
        /\ history' = ver.history
  /\ last' = "ok"
  /\ UNCHANGED <<gen, val, plan, services>>

\* ------------------------------------------------ routes/ra_system.py
\* perform_safety_check on a stage with a code row: the router is not
\* mounted (main.py) and default_safety_checker is not imported, so the
\* request is answered with an error (404, or 500 from the NameError
\* caught in the handler) and nothing is written
SafetyCheck(stage_id) ==
  /\ stage_id \in DOMAIN stages
  /\ GetByStage(codes, stage_id) # NoRow
  /\ last' = "error"
  /\ UNCHANGED <<stages, codes, history, gen, val, plan, services>>

\* interrogate_code on a stage with a code row, in a project whose safety
\* manual is uploaded: the code is read, the interrogator's LLM call is
\* awaited and its result is returned (success) or the error is reported;
\* nothing is written on either side of the await
InterrogateCode(stage_id, success) ==
  /\ stage_id \in DOMAIN stages
  /\ GetByStage(codes, stage_id) # NoRow
  /\ last' = IF success THEN "ok" ELSE "error"
  /\ UNCHANGED <<stages, codes, history, gen, val, plan, services>>

\* -------------------------------------------------- routes/planner.py
\* create_plan up to the await in segregate()
PlanBegin(word_count) ==
  /\ plan.pc = "idle"
  /\ IF ValidateInput(word_count)
     THEN /\ plan' = [pc |-> "llm"]
          /\ UNCHANGED last
     ELSE /\ last' = "InputInvalid"
          /\ UNCHANGED plan
  /\ UNCHANGED <<stages, codes, history, gen, val, services>>

\* create_plan: the LLM call raises
PlanError ==
  /\ plan.pc = "llm"
  /\ plan' = IdlePlan
  /\ last' = "error"
  /\ UNCHANGED <<stages, codes, history, gen, val, services>>

\* create_plan from the segregation on: replace the project's stages
PlanReturn(stage_list) ==
  /\ plan.pc = "llm"
  /\ stages' = CreateStages(<<>>, stage_list, 1)
  /\ plan' = IdlePlan
  /\ last' = "ok"
  /\ UNCHANGED <<codes, history, gen, val, services>>

\* ---------------------------------------------------------------- spec
\* the handlers whose reads and writes are not separated by an await
Atomic ==
  \/ \E s \in StageIds, t \in LogicTexts : UpdateStageLogic(s, t)
  \/ \E s \in StageIds : FinalizeStage(s)
  \/ \E s \in StageIds, b \in Bodies, g \in GlobalsRequests :
       UpdateGeneratedCode(s, b, g)
  \/ \E s \in StageIds : SafetyCheck(s)
  \/ \E s \in StageIds, ok \in BOOLEAN : InterrogateCode(s, ok)

\* a handler runs up to its await
Begin ==
  \/ \E s \in StageIds : ValidateBegin(s)
  \/ \E s \in StageIds : GenerateBegin(s)
  \/ \E w \in WordCounts : PlanBegin(w)

\* a suspended handler is resumed with the outcome of its LLM call; results
\* are the outputs the generator can return
Resume(results) ==
  \/ ValidateError
  \/ \E lines \in ValidatorResponses : ValidateReturn(lines)
  \/ \E r \in results : GenerateCollect(r)
  \/ GenerateFail
  \/ \E r \in results, expire \in BOOLEAN : GenerateFinish(r, expire)
  \/ PlanError
  \/ \E p \in Plans : PlanReturn(p)

\* every handler; the event loop runs the atomic ones between the steps of
\* a suspended one
Next ==
  \/ Atomic
  \/ InFlight < MaxInFlight /\ Begin
  \/ Resume(GenResults)

Spec == Init /\ [][Next]_vars

\* the LLM-backed handlers alone, with requests that overlap
NextOverlap ==
  \/ InFlight < MaxOverlap /\ Begin
  \/ Resume(GenResults)

SpecOverlap == Init /\ [][NextOverlap]_vars

\* the LLM-backed handlers alone, with a generator that may find no
\* program block in the LLM's output
NextBlocks ==
  \/ InFlight < MaxInFlight /\ Begin
  \/ Resume(BlockResults)

SpecBlocks == Init /\ [][NextBlocks]_vars

\* create_plan alone, with whatever stage list the LLM's JSON holds
NextPlanner ==
  \/ \E w \in WordCounts : PlanBegin(w)
  \/ PlanError
  \/ \E p \in LlmPlans : PlanReturn(p)

SpecPlanner == Init /\ [][NextPlanner]_vars

\* ------------------------------------------------- routes/nexus.py
\* a chat message: its role and, in place of its text, the request it
\* was written for
Message(role, user, project_id) ==
  [ role |-> role, user |-> user, project_id |-> project_id ]

\* conversation_history[-10:]
LastMessages(conversation_history) ==
  SubSeq(conversation_history,
         IF Len(conversation_history) > HistoryWindow
         THEN Len(conversation_history) - HistoryWindow + 1 ELSE 1,
         Len(conversation_history))

\* NexusAIAgent._build_messages, without the system message
BuildMessages(conversation_history, user, project_id) ==
  Append(LastMessages(conversation_history),
         Message("user", user, project_id))

\* nexus_chat up to the await of the LLM call inside nexus_agent.chat
ChatBegin(user, project_id) ==
  /\ nexus.asked < MaxChats
  /\ IF OwnerOf(project_id) # user
     THEN /\ last' = "error"
          /\ nexus' = [nexus EXCEPT !.asked = @ + 1]
     ELSE /\ nexus' = [nexus EXCEPT
                         !.asked = @ + 1,
                         !.chats = Append(@,
                           [ user |-> user, project_id |-> project_id,
                             messages |-> BuildMessages(
                               nexus.conversation_history, user, project_id) ])]
          /\ UNCHANGED last
  /\ UNCHANGED <<stages, codes, history, gen, val, plan, call, safety>>

RemoveAt(s, k) == SubSeq(s, 1, k - 1) \o SubSeq(s, k + 1, Len(s))

\* the LLM call raises: the request is answered 500, the history is as
\* it was
ChatError(k) ==
  /\ k \in 1..Len(nexus.chats)
  /\ nexus' = [nexus EXCEPT !.chats = RemoveAt(@, k)]
  /\ last' = "error"
  /\ UNCHANGED <<stages, codes, history, gen, val, plan, call, safety>>

\* the LLM call returns: the user message and the answer are appended to
\* the agent's history
ChatReturn(k) ==
  /\ k \in 1..Len(nexus.chats)
  /\ LET chat == nexus.chats[k]
     IN nexus' = [nexus EXCEPT
                    !.chats = RemoveAt(@, k),
                    !.conversation_history =
                       @ \o << Message("user", chat.user, chat.project_id),
                               Message("assistant", chat.user, chat.project_id) >>]
  /\ last' = "ok"
  /\ UNCHANGED <<stages, codes, history, gen, val, plan, call, safety>>

NextChat ==
  \/ \E user \in Users, project_id \in Projects :
       Len(nexus.chats) < MaxInFlight /\ ChatBegin(user, project_id)
  \/ \E k \in 1..MaxInFlight : ChatError(k)
  \/ \E k \in 1..MaxInFlight : ChatReturn(k)

SpecChat == Init /\ [][NextChat]_vars

\* ------------------------------------------------ core/ra_system
\* upload_safety_manual by the owner: process_and_embed fails and nothing
\* is written, or it writes the index files of the project anew (the
\* number stands for their content, one more with every upload)
UploadSafetyManual(project_id, success) ==
  /\ safety.disk[project_id] < MaxUploads
  /\ IF success
     THEN /\ safety' = [safety EXCEPT !.disk[project_id] = @ + 1]
          /\ last' = "ok"
     ELSE /\ last' = "error"
          /\ UNCHANGED safety
  /\ UNCHANGED <<stages, codes, history, gen, val, plan, nexus, call>>

\* SafetyRetrievalEngine.load_safety_manual: the cache afterwards
LoadSafetyManual(cache, disk, project_id) ==
  IF cache[project_id] # 0 THEN cache
  ELSE IF disk[project_id] = 0 THEN cache
  ELSE [cache EXCEPT ![project_id] = disk[project_id]]

\* RAInterrogator.interrogate_code up to its LLM call: the manual is
\* loaded and the chunks are retrieved from the cached index
InterrogateProject(project_id) ==
  /\ LET cache == LoadSafetyManual(safety.cache, safety.disk, project_id)
     IN IF cache[project_id] = 0
        THEN /\ last' = "error"
             /\ UNCHANGED safety
        ELSE /\ safety' = [safety EXCEPT
                              !.cache = cache,
                              !.retrieved[project_id] = cache[project_id]]
             /\ last' = "ok"
  /\ UNCHANGED <<stages, codes, history, gen, val, plan, nexus, call>>

NextSafety ==
  \/ \E p \in Projects, ok \in BOOLEAN : UploadSafetyManual(p, ok)
  \/ \E p \in Projects : InterrogateProject(p)

SpecSafety == Init /\ [][NextSafety]_vars

\* ------------------------------------- structured_text_generator.py
\* The text the LLM returned, as its lines. A line is one of these.
LineProgramBlock == "PROGRAM BLOCK"
LineProgramName == "Program Name: Main"
LineCodeHeader == "STRUCTURED TEXT CODE:"
LineVar == "VAR"
LineStatement == "Y0 := X0;"
LineEndFunction == "END_FUNCTION"
LineTableHeader == "Label Name | Data Type | Class"
LineEmpty == ""
CodeLines == { LineProgramBlock, LineProgramName, LineCodeHeader, LineVar,
               LineStatement, LineEndFunction, LineTableHeader, LineEmpty }
CodeTexts == SeqsUpTo(CodeLines, MaxLines)

\* the first index from i on of one of the wanted lines, Len + 1 when
\* there is none
IndexFrom(lines, i, wanted) ==
  LET found == { j \in i..Len(lines) : lines[j] \in wanted }
  IN IF found = {} THEN Len(lines) + 1
     ELSE CHOOSE j \in found : \A other \in found : j <= other

\* str.strip() of a text held as lines: the empty lines at its two ends go
RECURSIVE Strip(_)
Strip(lines) ==
  IF lines = <<>> THEN <<>>
  ELSE IF Head(lines) = LineEmpty THEN Strip(Tail(lines))
  ELSE IF Last(lines) = LineEmpty THEN Strip(SubSeq(lines, 1, Len(lines) - 1))
  ELSE lines

\* the loop of _parse_program_block over the lines of the code section
RECURSIVE CleanLoop(_, _, _, _)
CleanLoop(lines, i, cleaned_lines, skip_next_empty) ==
  IF i > Len(lines) THEN cleaned_lines
  ELSE LET line == lines[i]
       IN IF line = LineEmpty
          THEN CleanLoop(lines, i + 1,
                         IF skip_next_empty THEN cleaned_lines
                         ELSE Append(cleaned_lines, line),
                         FALSE)
          ELSE IF line = LineTableHeader \/ line = LineCodeHeader
          THEN CleanLoop(lines, i + 1, cleaned_lines, TRUE)
          ELSE CleanLoop(lines, i + 1, Append(cleaned_lines, line),
                         skip_next_empty)

NoBlock == [ name |-> None, code |-> <<>> ]

\* _parse_program_block: None for a block without a program name, else
\* the name and the cleaned lines after the first code header
ParseProgramBlock(block_text) ==
  LET code_match == IndexFrom(block_text, 1, {LineCodeHeader})
      code_text == Strip(SubSeq(block_text, code_match + 1, Len(block_text)))
  IN IF IndexFrom(block_text, 1, {LineProgramName}) > Len(block_text)
     THEN NoBlock
     ELSE [ name |-> "Main",
            code |-> Strip(CleanLoop(code_text, 1, <<>>, FALSE)) ]

\* group(1) of program_pattern for the header at line i: the lines up to
\* the next PROGRAM BLOCK or the next FUNCTION, with what stands before
\* FUNCTION on its line
BlockContent(code_text, i) ==
  LET end == IndexFrom(code_text, i + 1,
                       {LineProgramBlock, LineEndFunction})
      body == SubSeq(code_text, i + 1, end - 1)
  IN IF end <= Len(code_text) /\ code_text[end] = LineEndFunction
     THEN Append(body, "END_")
     ELSE body

\* the loop of _parse_generated_code over the matches of program_pattern;
\* a header is matched when a newline follows it
RECURSIVE ProgramBlocks(_, _)
ProgramBlocks(code_text, i) ==
  IF i >= Len(code_text) THEN <<>>
  ELSE IF code_text[i] = LineProgramBlock
  THEN LET program_block == ParseProgramBlock(BlockContent(code_text, i))
       IN (IF program_block = NoBlock THEN <<>> ELSE <<program_block>>)
          \o ProgramBlocks(code_text, i + 1)
  ELSE ProgramBlocks(code_text, i + 1)

\* _parse_generated_code: the program blocks of the result
ParseGeneratedCode(code_text) == ProgramBlocks(code_text, 1)

\* a row of a label table, as the cells between its pipes, each already
\* stripped of blanks
NameCells == {"Counter", "Label Name"}
DataTypeCells == {"BOOL", "INT"}
ClassCells == {"VAR"}
InitialValueCells == {"", "0", "TRUE"}
ConstantCells == {"Yes", "No", "TRUE", "1"}
EnglishCells == {"", "count", "yes"}
LocalLabelRows ==
  { <<n, d, c, i, k, e>> : n \in NameCells, d \in DataTypeCells,
                           c \in ClassCells, i \in InitialValueCells,
                           k \in ConstantCells, e \in EnglishCells }

\* str.lower() on the cells above
Lower(cell) ==
  CASE cell = "Yes" -> "yes"
    [] cell = "No" -> "no"
    [] cell = "TRUE" -> "true"
    [] cell = "Counter" -> "counter"
    [] cell = "Label Name" -> "label name"
    [] OTHER -> cell

\* any(keyword in parts[0].lower() for keyword in ['label name', 'name',
\* 'column', 'label'])
HasHeaderKeyword(cell) == Lower(cell) = "label name"

\* parts[k] if len(parts) > k else ""  (k counted from 0)
PartOr(parts, k, default) == IF Len(parts) > k THEN parts[k + 1] ELSE default

\* the body of the loop of _parse_label_table for one line with pipes:
\* the labels it appends
ParseLabelRow(cells) ==
  LET NotEmpty(cell) == cell # ""
      parts == SelectSeq(cells, NotEmpty)
      comment6 == IF Len(parts) > 5
                     /\ Lower(parts[6]) \notin {"yes", "no", "true", "false"}
                  THEN parts[6] ELSE ""
      label == [ name |-> PartOr(parts, 0, ""),
                 data_type |-> PartOr(parts, 1, ""),
                 class |-> PartOr(parts, 2, ""),
                 device |-> PartOr(parts, 3, ""),
                 initial_value |-> PartOr(parts, 4, ""),
                 constant |-> IF Len(parts) > 5
                              THEN Lower(parts[6]) \in {"yes", "true", "1"}
                              ELSE FALSE,
                 comment |-> PartOr(parts, 6, comment6) ]
  IN IF Len(parts) >= 3 /\ ~HasHeaderKeyword(parts[1])
        /\ label.name \notin {"", "-", "N/A"}
     THEN <<label>> ELSE <<>>

\* _parse_label_table on the rows of a table
RECURSIVE ParseLabelTable(_)
ParseLabelTable(rows) ==
  IF rows = <<>> THEN <<>>
  ELSE ParseLabelRow(Head(rows)) \o ParseLabelTable(Tail(rows))

\* _parse_label_table alone, on every table of one local-label row
InitLabels ==
  /\ InitIdle
  /\ \E row \in LocalLabelRows :
       call = [ pc |-> "labels", rows |-> <<row>>, labels |-> <<>> ]

ParseLabels ==
  /\ call.pc = "labels"
  /\ call' = [call EXCEPT !.pc = "labelled",
                          !.labels = ParseLabelTable(call.rows)]
  /\ UNCHANGED <<stages, codes, history, gen, val, plan, last, nexus, safety>>

NextLabels == ParseLabels

SpecLabels == InitLabels /\ [][NextLabels]_vars

\* _parse_generated_code alone, on every text of at most MaxLines lines
InitParse ==
  /\ InitIdle
  /\ \E code_text \in CodeTexts :
       call = [ pc |-> "parse", code_text |-> code_text,
                program_blocks |-> <<>> ]

ParseCode ==
  /\ call.pc = "parse"
  /\ call' = [call EXCEPT !.pc = "parsed",
                          !.program_blocks = ParseGeneratedCode(call.code_text)]
  /\ UNCHANGED <<stages, codes, history, gen, val, plan, last, nexus, safety>>

NextParse == ParseCode

SpecParse == InitParse /\ [][NextParse]_vars

\* ------------------------------------------- dependency_mapper.py
\* the dependencies of a plan over the stages 0..MaxStages
Dependencies == [ from_stage : StageNumbers, to_stage : StageNumbers ]
DependencyLists == SeqsUpTo(Dependencies, MaxDeps)

\* the loop of validate_dependencies that collects the reachable stages,
\* one pass over the dependencies in the order given
RECURSIVE ReachLoop(_, _, _)
ReachLoop(dependencies, k, reachable_stages) ==
  IF k > Len(dependencies) THEN reachable_stages
  ELSE ReachLoop(dependencies, k + 1,
                 IF dependencies[k].from_stage \in reachable_stages
                 THEN reachable_stages \cup {dependencies[k].to_stage}
                 ELSE reachable_stages)

\* validate_dependencies: the stages warned about as unreachable
UnreachableWarnings(stage_numbers, dependencies) ==
  LET reachable_stages == ReachLoop(dependencies, 1, {0})
  IN { stage_num \in stage_numbers :
         stage_num \notin reachable_stages /\ stage_num # 0 }

\* validate_dependencies alone, on every list of at most MaxDeps
\* dependencies
InitDeps ==
  /\ InitIdle
  /\ \E dependencies \in DependencyLists :
       call = [ pc |-> "validate", dependencies |-> dependencies,
                unreachable |-> {} ]

ValidateDependencies ==
  /\ call.pc = "validate"
  /\ call' = [call EXCEPT !.pc = "validated",
                          !.unreachable =
                             UnreachableWarnings(StageNumbers, call.dependencies)]
  /\ UNCHANGED <<stages, codes, history, gen, val, plan, last, nexus, safety>>

NextDeps == ValidateDependencies

SpecDeps == InitDeps /\ [][NextDeps]_vars

\* merge_global_labels alone, on every pair of label lists: the call frame
\* is held in gen, the result of the first call is merged with the same
\* new_labels again, and the two lists are merged the other way round
InitMerge ==
  /\ stages = <<>>
  /\ codes = <<>>
  /\ history = <<>>
  /\ val = IdleVal
  /\ plan = IdlePlan
  /\ last = "ok"
  /\ InitServices
  /\ call = IdleCall
  /\ \E existing_labels \in LabelLists, new_labels \in LabelLists :
       gen = [ pc |-> "merge",
               existing_labels |-> existing_labels,
               new_labels |-> new_labels,
               merged |-> <<>>,
               remerged |-> <<>>,
               swapped |-> <<>> ]

MergeOnce ==
  /\ gen.pc = "merge"
  /\ gen' = [gen EXCEPT !.pc = "merged",
                        !.merged = MergeGlobalLabels(gen.existing_labels,
                                                     gen.new_labels)]
  /\ UNCHANGED <<stages, codes, history, val, plan, last, services>>

MergeAgain ==
  /\ gen.pc = "merged"
  /\ gen' = [gen EXCEPT !.pc = "remerged",
                        !.remerged = MergeGlobalLabels(gen.merged,
                                                       gen.new_labels)]
  /\ UNCHANGED <<stages, codes, history, val, plan, last, services>>

MergeSwapped ==
  /\ gen.pc = "remerged"
  /\ gen' = [gen EXCEPT !.pc = "swapped",
                        !.swapped = MergeGlobalLabels(gen.new_labels,
                                                      gen.existing_labels)]
  /\ UNCHANGED <<stages, codes, history, val, plan, last, services>>

NextMerge == MergeOnce \/ MergeAgain \/ MergeSwapped

SpecMerge == InitMerge /\ [][NextMerge]_vars

\* ------------------------------------------------------------ properties
\* the newest code row of a stage that has one
HasCode(cd, stage_id) == GetByStage(cd, stage_id) # NoRow
CodeOf(cd, stage_id) == cd[GetByStage(cd, stage_id)]

\* C1: whenever the parsed validator response holds a categorized issue of
\* severity critical, validate_stage answers valid = false and leaves the
\* stage's is_validated flag as it was, whatever the Status line says.
C1_CriticalIssueGate ==
  [][\A lines \in ValidatorResponses :
       ( /\ CriticalCount(ParseValidationResult(lines).categorized_issues) > 0
         /\ ValidateReturn(lines) )
       => ( /\ ~ParseValidationResult(lines).valid
            /\ stages' = stages )]_vars

\* C2: the steps generate_code takes before its last stage's code has
\* arrived, the failing one included, write nothing: the code rows, the
\* ledger and every stage (its version_number too) stay as they were.
C2_AllOrNothingGeneration ==
  [][(GenerateFail \/ \E r \in GenResults : GenerateCollect(r))
       => UNCHANGED <<stages, codes, history>>]_vars

\* a generation failed while the project had code rows to lose
C2_Witness ==
  /\ last = "GenerationFailed"
  /\ gen.pc = "idle"
  /\ DOMAIN codes # {}

\* C3: generate_code called while some stage of the project is not
\* validated answers StagesNotValidated, starts no LLM call and leaves
\* stages, code rows and ledger unchanged.
C3_StagesNotValidated ==
  [][\A s \in StageIds :
       ( /\ GenerateBegin(s)
         /\ \E k \in DOMAIN stages : ~stages[k].is_validated )
       => ( /\ last' = "StagesNotValidated"
            /\ gen' = gen
            /\ gen'.pc = "idle"
            /\ UNCHANGED <<stages, codes, history>> )]_vars

\* the refusal was sent for a project with a validated and an unvalidated
\* stage
C3_Witness ==
  /\ last = "StagesNotValidated"
  /\ \E k \in DOMAIN stages : stages[k].is_validated
  /\ \E k \in DOMAIN stages : ~stages[k].is_validated

\* C4: finalize_stage on a stage that is not validated answers
\* NotValidated and changes no field of the stage nor anything else stored.
C4_FinalizeGate ==
  [][\A s \in StageIds :
       ( /\ FinalizeStage(s)
         /\ ~stages[s].is_validated )
       => ( /\ last' = "NotValidated"
            /\ UNCHANGED <<stages, codes, history>> )]_vars

\* the refusal was sent while an unvalidated, unfinalized stage exists
C4_Witness ==
  /\ last = "NotValidated"
  /\ \E k \in DOMAIN stages :
        ~stages[k].is_validated /\ ~stages[k].is_finalized

\* C5: in every reachable state a finalized stage is a validated stage.
C5_FinalizedImpliesValidated ==
  \A k \in DOMAIN stages : stages[k].is_finalized => stages[k].is_validated

\* a stage has been finalized, and its logic edited since the plan
C5_Witness ==
  \E k \in DOMAIN stages :
    stages[k].is_finalized /\ Truthy(stages[k].edited_logic)

\* C6: right after a generate_code that succeeded, the code rows of any two
\* stages of the project hold the same global_labels list.
C6_GlobalLabelsUnified ==
  [][(gen.pc = "llm" /\ gen'.pc = "idle" /\ last' = "ok")
       => \A a, b \in DOMAIN stages' :
            (HasCode(codes', a) /\ HasCode(codes', b))
            => CodeOf(codes', a).global_labels
                 = CodeOf(codes', b).global_labels]_vars

\* C7: while generate_code is suspended at its await, no other operation
\* writes the project's stages, code rows or ledger.
C7_MutualExclusion ==
  [][(gen.pc = "llm" /\ gen' = gen)
       => UNCHANGED <<stages, codes, history>>]_vars

\* lexicographic order on (major, minor, patch)
VersionLess(v, w) ==
  \/ v[1] < w[1]
  \/ v[1] = w[1] /\ v[2] < w[2]
  \/ v[1] = w[1] /\ v[2] = w[2] /\ v[3] < w[3]

\* C8: the version numbers of a stage's ledger entries, in append order,
\* are strictly increasing.
C8_SemverMonotone ==
  \A i, j \in 1..Len(history) :
    (i < j /\ history[i].stage_id = history[j].stage_id)
    => VersionLess(history[i].version_number, history[j].version_number)

\* the bump each action is specified to make
BumpTable(v, action) ==
  IF action \in {"validate", "generate_code"} THEN <<v[1], v[2] + 1, 0>>
  ELSE <<v[1], v[2], v[3] + 1>>

\* C9: every ledger entry's version is its previous version bumped as the
\* table says: minor+1 and patch 0 for validate and generate_code, patch+1
\* for edit_logic, edit_code and safety_check, major as it was.
C9_BumpTable ==
  \A k \in 1..Len(history) :
    history[k].version_number
      = BumpTable(history[k].previous_version, history[k].action)

\* the ledger grew by exactly one entry, of this action, for this stage
Appended(action, stage_id) ==
  /\ Len(history') = Len(history) + 1
  /\ SubSeq(history', 1, Len(history)) = history
  /\ Last(history').action = action
  /\ Last(history').stage_id = stage_id

\* C10: every successful update_stage_logic appends exactly one edit_logic
\* entry for its stage, and every validate_stage that passes exactly one
\* validate entry, in whatever state the stage is.
C10_EveryMutationAppends ==
  [][ /\ \A s \in StageIds, t \in LogicTexts :
           UpdateStageLogic(s, t) => Appended("edit_logic", s)
      /\ \A lines \in ValidatorResponses :
           (ParseValidationResult(lines).valid /\ ValidateReturn(lines))
           => Appended("validate", val.stage_id) ]_vars

\* C11: the ledger is append-only: every step leaves the entries already
\* appended in place, in order, with all their fields as they were.
C11_AppendOnlyLedger ==
  [][ /\ Len(history') >= Len(history)
      /\ SubSeq(history', 1, Len(history)) = history ]_vars

\* an entry outlived the code row it was written for, and another entry
\* for the same stage and action was appended after it
C11_Witness ==
  \E i, j \in 1..Len(history) :
    /\ i < j
    /\ history[i].stage_id = history[j].stage_id
    /\ history[i].action = history[j].action
    /\ history[i].code_id \notin DOMAIN codes

\* the ledger holds an entry of this action for this stage
HasEntry(action, stage_id) ==
  \E k \in 1..Len(history) :
    history[k].action = action /\ history[k].stage_id = stage_id

\* C12: in no reachable state is a mutation persisted while the ledger
\* entry that describes it is missing: a stage with edited logic has an
\* edit_logic entry holding that text, a validated stage a validate entry,
\* and every code row a generate_code entry written for that row.
C12_AtomicCommit ==
  /\ \A s \in DOMAIN stages :
        Truthy(stages[s].edited_logic)
        => \E k \in 1..Len(history) :
             /\ history[k].action = "edit_logic"
             /\ history[k].stage_id = s
             /\ history[k].new_code = stages[s].edited_logic
  /\ \A s \in DOMAIN stages :
        stages[s].is_validated => HasEntry("validate", s)
  /\ \A c \in DOMAIN codes :
        \E k \in 1..Len(history) :
          history[k].action = "generate_code" /\ history[k].code_id = c

\* C13: every successful safety check of a stage's generated code appends
\* exactly one safety_check entry for the stage and bumps the stage's
\* patch version by one.
C13_SafetyCheckEntry ==
  [][\A s \in StageIds :
       InterrogateCode(s, TRUE)
       => ( /\ Appended("safety_check", s)
            /\ stages'[s].version_number
                 = <<stages[s].version_number[1],
                     stages[s].version_number[2],
                     stages[s].version_number[3] + 1>> )]_vars

\* C14: the logic text generate_code puts in a stage's generation request
\* is the stage's edited_logic when it has one and its original_logic only
\* when it has none (the text the validator is given).
C14_GenerationRequestLogic ==
  [][\A s \in StageIds :
       (GenerateBegin(s) /\ gen'.pc = "llm")
       => \A k \in 1..Len(gen'.all_stages) :
            gen'.all_stages[k].logic
              = EffectiveLogic(stages[gen'.all_stages[k].id])]_vars

\* some stage's parsed output, the arriving one included, has no program
\* block
SomeZeroBlocks(g, result) ==
  \/ result.program_blocks = 0
  \/ \E k \in 1..Len(g.generated_results) :
       g.generated_results[k].result.program_blocks = 0

\* C15: when the parsed output of any stage holds zero program blocks,
\* generate_code fails with GenerationFailed and writes no code row and no
\* ledger entry.
C15_ZeroBlocksFail ==
  [][\A r \in BlockResults, expire \in BOOLEAN :
       (SomeZeroBlocks(gen, r) /\ GenerateFinish(r, expire))
       => ( /\ last' = "GenerationFailed"
            /\ UNCHANGED <<stages, codes, history>> )]_vars

\* C16: in every persisted plan, whatever the LLM returned, a stage
\* numbered 0 is of type idle and a stage numbered 1 is of type safety.
C16_MandatoryStages ==
  \A s \in DOMAIN stages :
    /\ stages[s].stage_number = 0 => stages[s].stage_type = "idle"
    /\ stages[s].stage_number = 1 => stages[s].stage_type = "safety"

\* C17: the stage numbers of the persisted stages are pairwise distinct
\* and are exactly 0 .. N-1, N the number of stages.
C17_Contiguity ==
  /\ \A a, b \in DOMAIN stages :
        stages[a].stage_number = stages[b].stage_number => a = b
  /\ { stages[s].stage_number : s \in DOMAIN stages }
       = 0 .. (Cardinality(DOMAIN stages) - 1)

\* the word counts the input validation is specified to accept
MaxWords == 5000

\* C18: create_plan on a text that is empty or whose word count is below
\* 50 or above 5000 answers InputInvalid, starts no LLM call and leaves
\* the stages unchanged.
C18_InputInvalid ==
  [][\A w \in WordCounts :
       (PlanBegin(w) /\ (w < MinWords \/ w > MaxWords))
       => ( /\ last' = "InputInvalid"
            /\ plan' = plan
            /\ UNCHANGED <<stages, codes, history>> )]_vars

\* the identity key of a label: its device, or its name when it has none
KeyOf(label) == IF label.device # "" THEN label.device ELSE label.name
Keys(labels) == { KeyOf(labels[k]) : k \in 1..Len(labels) }
Occurrences(labels, key) ==
  Cardinality({ k \in 1..Len(labels) : KeyOf(labels[k]) = key })
DistinctKeys(labels) ==
  \A key \in Keys(labels) : key # "" /\ Occurrences(labels, key) = 1

\* C19: the merge of two lists is their union under the identity key:
\* when every label has a key and the existing list holds each of its keys
\* once, every key of the existing and of the new labels occurs exactly
\* once in the merged list, which starts with the existing labels.
C19_UnionByKey ==
  ( /\ gen.pc = "merged"
    /\ DistinctKeys(gen.existing_labels)
    /\ "" \notin Keys(gen.new_labels) )
  => ( /\ SubSeq(gen.merged, 1, Len(gen.existing_labels)) = gen.existing_labels
       /\ \A key \in Keys(gen.existing_labels) \cup Keys(gen.new_labels) :
            Occurrences(gen.merged, key) = 1 )

\* C20: merging the result of a merge with the same new labels once more
\* changes nothing: merge(merge(A, B), B) = merge(A, B).
C20_MergeIdempotent ==
  gen.pc = "remerged" => gen.remerged = gen.merged

\* a second merge after a first one that appended one of the new labels
\* and dropped another
C20_Witness ==
  /\ gen.pc = "remerged"
  /\ Len(gen.merged) > Len(gen.existing_labels)
  /\ Len(gen.merged) < Len(gen.existing_labels) + Len(gen.new_labels)
  /\ gen.existing_labels # <<>>

\* no key of one list is a key of the other
NoDeviceCollision(a, b) == Keys(a) \cap Keys(b) = {}

Duplicates(earlier, label) ==
  \/ earlier.device # "" /\ KeyOf(label) = earlier.device
  \/ earlier.name # "" /\ label.name = earlier.name
NoDuplicates(labels) ==
  /\ "" \notin Keys(labels)
  /\ \A i, j \in 1..Len(labels) :
       i # j => ~Duplicates(labels[i], labels[j])
Range(labels) == { labels[k] : k \in 1..Len(labels) }

C22_HistoryNotShared ==
  \A k \in 1..Len(nexus.chats) :
    LET chat == nexus.chats[k]
    IN \A m \in 1..Len(chat.messages) :
         /\ chat.messages[m].user = chat.user
         /\ chat.messages[m].project_id = chat.project_id

\* the declaration keywords among the lines of the parsed texts
DeclarationKeywords == { LineVar, LineEndFunction }

\* C23: whatever the text, no program block the code parser returns has
\* a declaration keyword in its code.
C23_NoDeclarationKeywords ==
  call.pc = "parsed" =>
    \A b \in 1..Len(call.program_blocks) :
      \A k \in 1..Len(call.program_blocks[b].code) :
        call.program_blocks[b].code[k] \notin DeclarationKeywords

\* the stages reachable from the given ones over the dependency edges
RECURSIVE ReachableFrom(_, _)
ReachableFrom(reached, dependencies) ==
  LET more == reached \cup
                { dependencies[k].to_stage :
                    k \in { j \in 1..Len(dependencies) :
                              dependencies[j].from_stage \in reached } }
  IN IF more = reached THEN reached ELSE ReachableFrom(more, dependencies)

\* C24: the dependency validator warns that a stage other than 0 is
\* unreachable exactly when no path of dependencies leads from stage 0 to
\* it, in whatever order the dependencies are listed.
C24_UnreachableWarning ==
  call.pc = "validated" =>
    \A n \in StageNumbers \ {0} :
      n \in call.unreachable <=> n \notin ReachableFrom({0}, call.dependencies)

\* C25: when generate_code saves a stage that had a code row, the
\* generate_code entry it appends for the stage snapshots the row it
\* deleted: old_code is the prior program_body, new_code the new one and
\* diff the difference of the two.
C25_RegenerationSnapshot ==
  [][\A r \in GenResults, expire \in BOOLEAN :
       GenerateFinish(r, expire)
       => \A k \in (Len(history) + 1)..Len(history') :
            LET entry == history'[k]
            IN ( /\ entry.action = "generate_code"
                 /\ HasCode(codes, entry.stage_id)
                 /\ HasCode(codes', entry.stage_id) )
               => ( /\ entry.old_code = CodeOf(codes, entry.stage_id).program_body
                    /\ entry.new_code = CodeOf(codes', entry.stage_id).program_body
                    /\ entry.diff = GenerateDiff(entry.old_code, entry.new_code) )]_vars

\* C26: a local-label row name | dataType | class | initialValue |
\* constant | english whose first cell is no header yields one label, whose
\* initial_value is the row's initialValue cell and whose constant is true
\* exactly when the row's constant cell is yes, true or 1.
C26_LocalLabelRow ==
  ( /\ call.pc = "labelled"
    /\ ~HasHeaderKeyword(call.rows[1][1]) )
  => ( /\ Len(call.labels) = 1
       /\ call.labels[1].initial_value = call.rows[1][4]
       /\ call.labels[1].constant
            = (Lower(call.rows[1][5]) \in {"yes", "true", "1"}) )

\* C27: after an update_generated_code that succeeded and gave a globals
\* list, every code row of the project holds that same global_labels list.
C27_LabelsSynchronized ==
  [][\A s \in StageIds, b \in Bodies, g \in GlobalsRequests :
       (g.given /\ UpdateGeneratedCode(s, b, g))
       => \A row \in DOMAIN codes' :
            codes'[row].global_labels = g.labels]_vars

\* C28: code is generated from validated logic only: an update_stage_logic
\* that changes the effective logic of a stage leaves the stage not
\* validated, so that generate_code refuses it until it is validated again.
C28_EditInvalidates ==
  [][\A s \in StageIds, t \in LogicTexts :
       ( /\ UpdateStageLogic(s, t)
         /\ stages[s].is_validated
         /\ t # EffectiveLogic(stages[s]) )
       => ~stages'[s].is_validated]_vars

\* C29: once a safety manual has been uploaded and indexed for a project,
\* every later interrogation of the project retrieves its chunks from the
\* index built last, never from one cached before that upload.
C29_FreshSafetyIndex ==
  [][\A p \in Projects :
       (InterrogateProject(p) /\ safety.disk[p] > 0)
       => safety'.retrieved[p] = safety.disk[p]]_vars

\* C30: every code row refers to a stage that exists; after create_plan
\* has replaced the stages, no code row of a replaced stage is left.
C30_NoOrphanCode ==
  \A row \in DOMAIN codes : codes[row].stage_id \in DOMAIN stages

====
